---- MODULE Spec2Model ----
(***************************************************************************)
(* Model of wikidump: the "doi" identifier extractor                        *)
(* (wikidump/extractors/doi.py: lexer, read_doi, extract_search,            *)
(* extract_island) and the bibliography pipeline                            *)
(* (wikidump/processors/bibliography_extractor.py: is_bibliography,         *)
(* extract_pages, extract_revisions).                                       *)
(*                                                                          *)
(* A text is a sequence of one-character strings; offsets are 0-based as in *)
(* Python, so the character at offset p of text is text[p + 1].             *)
(***************************************************************************)
EXTENDS Integers, Sequences, FiniteSets, TLC

VARIABLES
    \* ---- extractors/doi.py
    method,       \* the function of doi.py that was called
    text,         \* the text handed to it
    dpc,          \* position in the extractor code
    start,        \* tokenize_search's start offset
    tok_pos,      \* offset where the lexer's next search starts (match.end())
    tokens,       \* tokens the lexer has yielded so far, <<kind, text>> each
    depth,        \* read_doi's depth counters, [bracket |-> n, curly |-> n]
    doi_buffer,   \* read_doi's doi_buffer: the token texts appended so far
    stop_kind,    \* kind of the token read_doi's loop stopped at ("end": none left)
    identifier,   \* the id read_doi returned last
    scan_pos,     \* where DOI_START_RE.finditer looks for its next match
    begin_pos,    \* extract_search's begin_pos
    last_end,     \* extract_search's last_end
    captures,     \* the CaptureResults extract_search has yielded
    dois          \* the ids of the ('doi', ...) pairs extract_island has yielded

VARIABLES
    \* ---- processors/bibliography_extractor.py
    only_last_revision,     \* args.only_last_revision
    score,                  \* the best fuzzy-match score of each section name
    pc,                     \* position in the pipeline code
    stats,                  \* main's stats
    dump,                   \* the pages read from the dump so far, each with
                            \* the revisions read from it so far
    cache,                  \* the peekable's cache: revisions peeked, not taken
    mw_revision,            \* extract_revisions' mw_revision, as its number
                            \* in the page (0: none)
    is_last_revision,       \* extract_revisions' is_last_revision
    bibliography_sections,  \* extract_revisions' bibliography_sections
    section,                \* the place of the section loop in it
    out,                    \* the Page records handed to the renderer, each
                            \* with the Revision records of its revisions
    args,                   \* the section_name and the score_cutoff of the
                            \* last call of is_bibliography
    returned,               \* what the last call of is_bibliography returned
    lru,                    \* the entries of its lru_cache, oldest first
    calls                   \* the calls of is_bibliography made so far

doiVars == <<method, text, dpc, start, tok_pos, tokens, depth, doi_buffer, stop_kind,
             identifier, scan_pos, begin_pos, last_end, captures>>

pipeVars == <<only_last_revision, score, pc, stats, dump, cache, mw_revision,
              is_last_revision, bibliography_sections, section, out>>

islandVars == <<dois>>

clsVars == <<args, returned, lru, calls>>

extractorVars == <<doiVars, islandVars>>

processorVars == <<pipeVars, clsVars>>

vars == <<doiVars, islandVars, pipeVars, clsVars>>

(***************************************************************************)
(* Characters and character classes of the regular expressions.            *)
(***************************************************************************)
NoChar == "EOF"

Digits == {"0", "1", "2", "3", "4", "5", "6", "7", "8", "9"}

Letters == {"a", "b", "c", "d", "x", "y", "z"}

\* \w under re.U
WordChars == Letters \cup Digits \cup {"_"}

\* [\n\r]
BreakChars == {"\n", "\r"}

\* \s
SpaceChars == {" ", "\t", "\n", "\r"}

At(t, p) == IF p >= 0 /\ p < Len(t) THEN t[p + 1] ELSE NoChar

\* The number of consecutive characters of t from offset p that lie in S
\* (a greedy S* at p).
RECURSIVE RunIn(_, _, _)
RunIn(t, p, S) == IF At(t, p) \in S THEN 1 + RunIn(t, p + 1, S) ELSE 0

\* The number of consecutive characters of t from offset p that are
\* characters not in S (a greedy [^S]* at p).
RECURSIVE RunNotIn(_, _, _)
RunNotIn(t, p, S) ==
    IF p < Len(t) /\ At(t, p) \notin S THEN 1 + RunNotIn(t, p + 1, S) ELSE 0

\* Whether the literal w occurs in t at offset p.
Literal(t, p, w) ==
    /\ p + Len(w) <= Len(t)
    /\ \A i \in 1..Len(w) : t[p + i] = w[i]

RECURSIVE Concat(_)
Concat(ss) == IF ss = <<>> THEN <<>> ELSE Head(ss) \o Concat(Tail(ss))

Slice(t, a, b) == SubSeq(t, a + 1, b)

Max(a, b) == IF a >= b THEN a ELSE b

(***************************************************************************)
(* The patterns.  Each operator gives the length of the pattern's match at  *)
(* offset p of t, and 0 when it does not match there (no pattern of         *)
(* the lexicon matches the empty string).                                   *)
(***************************************************************************)
MinDoiDigits == 4

\* DOI_START_RE = 10\.[0-9]{4,}/
\* The greedy digit run must be followed by "/": backing off to fewer digits
\* leaves a digit where "/" is needed.
DOI_START_RE(t, p) ==
    LET n == RunIn(t, p + 3, Digits)
    IN  IF /\ Literal(t, p, <<"1", "0", ".">>)
           /\ n >= MinDoiDigits
           /\ At(t, p + 3 + n) = "/"
        THEN 3 + n + 1
        ELSE 0

HTML_TAGS ==
    << <<"r","e","f">>, <<"s","p","a","n">>, <<"d","i","v">>,
       <<"t","a","b","l","e">>, <<"h","1">>, <<"h","2">>, <<"h","3">>,
       <<"h","4">>, <<"h","5">>, <<"h","6">>, <<"b">>, <<"u">>, <<"i">>,
       <<"s">>, <<"i","n","s">>, <<"d","e","l">>, <<"c","o","d","e">>,
       <<"t","t">>, <<"b","l","o","c","k","q","u","o","t","e">>,
       <<"p","r","e">> >>

\* What follows the tag name at offset r: (\s[^>\n\r]+)?>
TagRest(t, r) ==
    LET m == RunNotIn(t, r + 1, {">"} \cup BreakChars)
    IN  IF At(t, r) = ">" THEN 1
        ELSE IF At(t, r) \in SpaceChars /\ m >= 1 /\ At(t, r + 1 + m) = ">"
        THEN 1 + m + 1
        ELSE 0

\* TAGS_RE = <(/\s*)?(ref|span|...)(\s[^>\n\r]+)?>
TAGS_RE(t, p) ==
    LET q == IF At(t, p + 1) = "/"
             THEN p + 2 + RunIn(t, p + 2, SpaceChars)
             ELSE p + 1
        names == {i \in 1..Len(HTML_TAGS) :
                     /\ Literal(t, q, HTML_TAGS[i])
                     /\ TagRest(t, q + Len(HTML_TAGS[i])) > 0}
    IN  IF At(t, p) = "<" /\ names # {}
        THEN LET i == CHOOSE i \in names : \A j \in names : i <= j
                 r == q + Len(HTML_TAGS[i])
             IN  (r - p) + TagRest(t, r)
        ELSE 0

OneOf(t, p, S) == IF At(t, p) \in S THEN 1 ELSE 0

Lit(t, p, w) == IF Literal(t, p, w) THEN Len(w) ELSE 0

\* A mutant of LEXICON: no catch-all.
LEXICON_without_etc ==
    << "doi_start", "open_paren", "close_paren", "open_bracket",
       "close_bracket", "comment_start", "comment_end", "tag", "open_angle",
       "close_angle", "open_curly", "close_curly", "pipe", "punct",
       "url_end", "break", "whitespace", "word" >>

\* A mutant of LEXICON: no alternative takes a line break.
LEXICON_without_breaks ==
    << "doi_start", "open_paren", "close_paren", "open_bracket",
       "close_bracket", "comment_start", "comment_end", "tag", "open_angle",
       "close_angle", "open_curly", "close_curly", "pipe", "punct",
       "url_end", "word", "etc" >>

\* LEXICON: the kinds, in the order of the alternation
LEXICON ==
    << "doi_start", "open_paren", "close_paren", "open_bracket",
       "close_bracket", "comment_start", "comment_end", "tag", "open_angle",
       "close_angle", "open_curly", "close_curly", "pipe", "punct",
       "url_end", "break", "whitespace", "word", "etc" >>

\* The pattern LEXICON pairs with each kind.
Pattern(kind, t, p) ==
    CASE kind = "doi_start"     -> DOI_START_RE(t, p)
      [] kind = "open_paren"    -> OneOf(t, p, {"("})
      [] kind = "close_paren"   -> OneOf(t, p, {")"})
      [] kind = "open_bracket"  -> OneOf(t, p, {"["})
      [] kind = "close_bracket" -> OneOf(t, p, {"]"})
      [] kind = "comment_start" -> Lit(t, p, <<"<", "!", "-", "-">>)
      [] kind = "comment_end"   -> Lit(t, p, <<"-", "-", ">">>)
      [] kind = "tag"           -> TAGS_RE(t, p)
      [] kind = "open_angle"    -> OneOf(t, p, {"<"})
      [] kind = "close_angle"   -> OneOf(t, p, {">"})
      [] kind = "open_curly"    -> OneOf(t, p, {"{"})
      [] kind = "close_curly"   -> OneOf(t, p, {"}"})
      [] kind = "pipe"          -> OneOf(t, p, {"|"})
      [] kind = "punct"         -> OneOf(t, p, {",", ".", ";", "!"})
      [] kind = "url_end"       -> OneOf(t, p, {"?", "#"})
      [] kind = "break"         -> RunIn(t, p, BreakChars)
      [] kind = "whitespace"    -> RunIn(t, p, SpaceChars)
      [] kind = "word"          -> RunIn(t, p, WordChars)
      [] kind = "etc"           -> IF p < Len(t) /\ At(t, p) # "\n"
                                   THEN 1 ELSE 0

NoMatch == [kind |-> "", start |-> -1, end |-> -1]

\* The alternation at offset p: the first alternative that matches wins.
LexiconAt(t, p) ==
    LET hits == {i \in 1..Len(LEXICON) : Pattern(LEXICON[i], t, p) > 0}
    IN  IF hits = {} THEN NoMatch
        ELSE LET i == CHOOSE i \in hits : \A j \in hits : i <= j
             IN  [kind |-> LEXICON[i], start |-> p,
                  end |-> p + Pattern(LEXICON[i], t, p)]

\* _lexicon_re.search(text, pos): the leftmost match at or after pos.
RECURSIVE lexicon_re_search(_, _)
lexicon_re_search(t, pos) ==
    IF pos >= Len(t) THEN NoMatch
    ELSE IF LexiconAt(t, pos) # NoMatch THEN LexiconAt(t, pos)
    ELSE lexicon_re_search(t, pos + 1)

(***************************************************************************)
(* _punctuation_at_end_re = [\.,!]+$ and its sub('', id_).                  *)
(* Without re.M, $ matches at the end of the string and just before a      *)
(* newline that ends the string.                                            *)
(***************************************************************************)
EndPunctuation == {".", ",", "!"}

\* The length of the run of characters of S that ends at offset e of s.
RECURSIVE RunBefore(_, _, _)
RunBefore(s, e, S) ==
    IF e >= 1 /\ s[e] \in S THEN 1 + RunBefore(s, e - 1, S) ELSE 0

\* A mutant of punctuation_at_end_re_sub: the slash goes with the punctuation.
rstrip_punctuation_and_slash(s) ==
    SubSeq(s, 1, Len(s) - RunBefore(s, Len(s), EndPunctuation \cup {"/"}))

\* A mutant of punctuation_at_end_re_sub: rstrip(".")
rstrip_dot(s) == SubSeq(s, 1, Len(s) - RunBefore(s, Len(s), {"."}))

punctuation_at_end_re_sub(s) ==
    LET n == Len(s)
        e == IF n > 0 /\ s[n] = "\n" THEN n - 1 ELSE n
        k == RunBefore(s, e, EndPunctuation)
    IN  SubSeq(s, 1, e - k) \o SubSeq(s, e + 1, n)

(***************************************************************************)
(* Input texts: concatenations of a few pieces, plus fixed examples.        *)
(***************************************************************************)
\* "10.1000/"
DoiStart == <<"1", "0", ".", "1", "0", "0", "0", "/">>

SeqsUpTo(S, n) == UNION {[1..k -> S] : k \in 0..n}

TextsOf(pieces, n) == {Concat(s) : s \in SeqsUpTo(pieces, n)}

MaxLexPieces == 3

LexPieces ==
    { DoiStart, <<"<", "!", "-", "-">>, <<"-", "-", ">">>, <<"<", "b">>,
      <<">">>, <<" ">>, <<"\n">>, <<"a">> }

LexExamples ==
    { <<"<", "b", " ", "a", "=", "1", ">">>,
      <<"<", "/", " ", "b", ">", "<", "i", "n", "s", ">">>,
      <<"<", "b", "\n", "a", "\n", ">">>,
      <<"a", "_", "1", "\t", "\r", "\n", ";", "#", ")", "[", "}">>,
      <<".", "(", "]", "{", "|", "?", ",", "!", "-", "/", "<", "=">>,
      <<"1", "0", ".", "1", "0", "0", "/", "1", "0", ".", "1", "0", "0",
        "0", "0", "/">> }

LexTexts == TextsOf(LexPieces, MaxLexPieces) \cup LexExamples

MaxTailPieces == 3

TailPieces ==
    { <<"a">>, <<".">>, <<"!">>, <<"[">>, <<"]">>, <<"{">>, <<"}">>, <<" ">> }

\* What follows "10.1000/" in the examples: xyz123. ab[c]d abc] and one
\* text for each kind of token that read_doi names.
TailExamples ==
    { <<"x", "y", "z", "1", "2", "3", ".">>,
      <<"a", "b", "[", "c", "]", "d">>,
      <<"a", "b", "c", "]">>,
      <<"a", ",", "<", "b", ">", "c">>,
      <<"a", ";", "|", "c">>,
      <<"a", "(", ")", "?", "c">>,
      <<"a", ".", "\n", "c">>,
      <<"a", "<", "!", "-", "-", "c">>,
      <<"a", "-", "-", ">", "c">>,
      <<"a", "<", ">", "#">>,
      <<"[", "{", "]", "}", "}", "a">>,
      <<"1", "0", ".", "1", "0", "0", "0", "/", ".", ",">> }

ReadTexts ==
    {DoiStart \o t : t \in TextsOf(TailPieces, MaxTailPieces) \cup TailExamples}

MaxSearchPieces == 4

SearchPieces == { DoiStart, <<"a">>, <<" ">>, <<".">>, <<"[">>, <<"]">> }

\* An identifier-start inside an identifier, and another identifier after.
SearchExamples ==
    { <<" ">> \o DoiStart \o DoiStart \o <<" ">> \o DoiStart \o <<"a", ".">>,
      <<"a", " ">> \o DoiStart \o <<"[">> \o DoiStart \o <<"]", "]">>
          \o DoiStart }

SearchTexts ==
    TextsOf(SearchPieces, MaxSearchPieces)
        \cup SearchExamples
        \cup {<<" ">> \o t : t \in {u \in ReadTexts : Len(u) <= Len(DoiStart) + 2}}

(***************************************************************************)
(* The state of each half of the program when it is not the one running.   *)
(***************************************************************************)
NoDepth == [bracket |-> 0, curly |-> 0]

DoiIdle ==
    /\ method = "" /\ text = <<>> /\ dpc = ""
    /\ start = 0 /\ tok_pos = 0 /\ tokens = <<>>
    /\ depth = NoDepth /\ doi_buffer = <<>>
    /\ stop_kind = "" /\ identifier = <<>>
    /\ scan_pos = 0 /\ begin_pos = 0 /\ last_end = 0 /\ captures = <<>>

IslandIdle == dois = <<>>

PipelineIdle ==
    /\ only_last_revision = FALSE /\ score = <<>> /\ pc = ""
    /\ stats = <<>> /\ dump = <<>> /\ cache = <<>> /\ mw_revision = 0
    /\ is_last_revision = FALSE /\ bibliography_sections = <<>>
    /\ section = 0 /\ out = <<>>

ClassifierIdle ==
    /\ args = [section_name |-> "", score_cutoff |-> 0] /\ returned = FALSE
    /\ lru = <<>> /\ calls = 0

ExtractorIdle == DoiIdle /\ IslandIdle

ProcessorIdle == PipelineIdle /\ ClassifierIdle

(***************************************************************************)
(* The lexer: tokenize_finditer(text) and tokenize_search(text, start).     *)
(* Each step yields one token: the next match of the alternation.          *)
(***************************************************************************)
InitLexer ==
    /\ method \in {"tokenize_finditer", "tokenize_search"}
    /\ text \in LexTexts
    /\ dpc = "tokenize"
    /\ start \in IF method = "tokenize_finditer" THEN {0} ELSE 0..Len(text)
    /\ tok_pos = start
    /\ tokens = <<>>
    /\ depth = NoDepth /\ doi_buffer = <<>>
    /\ stop_kind = "" /\ identifier = <<>>
    /\ scan_pos = 0 /\ begin_pos = 0 /\ last_end = 0 /\ captures = <<>>
    /\ IslandIdle
    /\ ProcessorIdle

\* yield match.lastgroup, match.group(0)
Yield(m) == Append(tokens, <<m.kind, Slice(text, m.start, m.end)>>)

\* for match in group_regex.finditer(text): yield ...
tokenize_finditer ==
    /\ method = "tokenize_finditer" /\ dpc = "tokenize"
    /\ LET m == lexicon_re_search(text, tok_pos)
       IN  IF m = NoMatch
           THEN /\ dpc' = "done"
                /\ UNCHANGED <<tokens, tok_pos>>
           ELSE /\ tokens' = Yield(m)
                /\ tok_pos' = m.end
                /\ UNCHANGED dpc
    /\ UNCHANGED <<method, text, start, depth, doi_buffer, stop_kind,
                   identifier, scan_pos, begin_pos, last_end, captures>>
    /\ UNCHANGED <<islandVars, processorVars>>

\* match = _lexicon_re.search(text, start)
\* while match is not None: yield ...; match = _lexicon_re.search(text, match.end())
tokenize_search ==
    /\ method = "tokenize_search" /\ dpc = "tokenize"
    /\ LET m == lexicon_re_search(text, tok_pos)
       IN  IF m = NoMatch
           THEN /\ dpc' = "done"
                /\ UNCHANGED <<tokens, tok_pos>>
           ELSE /\ tokens' = Yield(m)
                /\ tok_pos' = m.end
                /\ UNCHANGED dpc
    /\ UNCHANGED <<method, text, start, depth, doi_buffer, stop_kind,
                   identifier, scan_pos, begin_pos, last_end, captures>>
    /\ UNCHANGED <<islandVars, processorVars>>

NextLexer == tokenize_finditer \/ tokenize_search

SpecLexer == InitLexer /\ [][NextLexer]_vars

(***************************************************************************)
(* read_doi(tokens), tokens = peekable(tokenize_search(text, start)).       *)
(* tok_pos is the stream's position: the offset up to which tokens have     *)
(* been taken with next(); peek() looks at the token that starts there and  *)
(* takes nothing.                                                           *)
(***************************************************************************)
\* tokens.peek(None)
peek == lexicon_re_search(text, tok_pos)

\* ('url_end', 'break', 'whitespace', 'tag', 'pipe', 'comment_start',
\*  'comment_end')
Terminators ==
    {"url_end", "break", "whitespace", "tag", "pipe", "comment_start",
     "comment_end"}

\* doi_buffer.append(next(tokens)[1])
AppendNext(m) ==
    /\ doi_buffer' = Append(doi_buffer, Slice(text, m.start, m.end))
    /\ tok_pos' = m.end

\* lines 102-106: the assertion, the counters, the start token
read_doi_enter ==
    /\ dpc = "read_doi"
    /\ IF peek.kind = "doi_start"
       THEN /\ depth' = NoDepth
            /\ doi_buffer' = <<Slice(text, peek.start, peek.end)>>
            /\ tok_pos' = peek.end
            /\ dpc' = "read_loop"
       ELSE /\ dpc' = "AssertionError"
            /\ UNCHANGED <<depth, doi_buffer, tok_pos>>
    /\ stop_kind' = ""
    /\ UNCHANGED <<method, text, start, tokens, identifier, scan_pos,
                   begin_pos, last_end, captures>>
    /\ UNCHANGED <<islandVars, processorVars>>

\* A mutant of Stops: every closing bracket or brace ends the identifier.
StopsAtEveryCloser(m) ==
    \/ m = NoMatch
    \/ m.kind \in Terminators
    \/ m.kind = "close_bracket"
    \/ m.kind = "close_curly"

\* Whether the loop stops at the peeked token m (the breaks of lines 114,
\* 126, 132 and the loop condition of line 108).
Stops(m) ==
    \/ m = NoMatch
    \/ m.kind \in Terminators
    \/ m.kind = "close_bracket" /\ ~(depth.bracket > 0)
    \/ m.kind = "close_curly" /\ ~(depth.curly > 0)

\* A mutant of DepthAfter: a closer leaves its counter as it is.
DepthAfterOpenersOnly(m) ==
    CASE m.kind = "open_bracket"  -> [depth EXCEPT !.bracket = @ + 1]
      [] m.kind = "open_curly"    -> [depth EXCEPT !.curly = @ + 1]
      [] OTHER                    -> depth

\* The counters after the token m has been appended (lines 116, 119, 123,
\* 129).
DepthAfter(m) ==
    CASE m.kind = "open_bracket"  -> [depth EXCEPT !.bracket = @ + 1]
      [] m.kind = "open_curly"    -> [depth EXCEPT !.curly = @ + 1]
      [] m.kind = "close_bracket" -> [depth EXCEPT !.bracket = @ - 1]
      [] m.kind = "close_curly"   -> [depth EXCEPT !.curly = @ - 1]
      [] OTHER                    -> depth

\* A mutant of Break: the token the loop stops at is taken from the stream.
BreakTaking ==
    /\ tok_pos' = IF peek = NoMatch THEN tok_pos ELSE peek.end
    /\ UNCHANGED <<depth, doi_buffer>>

\* break (and the end of the loop): nothing is taken from the stream
Break == UNCHANGED <<depth, doi_buffer, tok_pos>>

\* lines 108-134: one turn of the loop
read_doi_loop ==
    /\ dpc = "read_loop"
    /\ IF Stops(peek)
       THEN /\ stop_kind' = IF peek = NoMatch THEN "end" ELSE peek.kind
            /\ dpc' = "read_return"
            /\ Break
       ELSE /\ depth' = DepthAfter(peek)
            /\ AppendNext(peek)
            /\ UNCHANGED <<stop_kind, dpc>>
    /\ UNCHANGED <<method, text, start, tokens, identifier, scan_pos,
                   begin_pos, last_end, captures>>
    /\ UNCHANGED <<islandVars, processorVars>>

\* lines 136-137
read_doi_return ==
    /\ dpc = "read_return"
    /\ identifier' = punctuation_at_end_re_sub(Concat(doi_buffer))
    /\ dpc' = IF method = "read_doi" THEN "done" ELSE "read_returned"
    /\ UNCHANGED <<method, text, start, tok_pos, tokens, depth, doi_buffer,
                   stop_kind, scan_pos, begin_pos, last_end, captures>>
    /\ UNCHANGED <<islandVars, processorVars>>

\* read_doi called on the token stream of a text that begins with an
\* identifier-start.
InitReadDoi ==
    /\ method = "read_doi"
    /\ text \in ReadTexts
    /\ dpc = "read_doi"
    /\ start = 0 /\ tok_pos = 0 /\ tokens = <<>>
    /\ depth = NoDepth /\ doi_buffer = <<>>
    /\ stop_kind = "" /\ identifier = <<>>
    /\ scan_pos = 0 /\ begin_pos = 0 /\ last_end = 0 /\ captures = <<>>
    /\ IslandIdle
    /\ ProcessorIdle

NextReadDoi == read_doi_enter \/ read_doi_loop \/ read_doi_return

SpecReadDoi == InitReadDoi /\ [][NextReadDoi]_vars

(***************************************************************************)
(* extract_search(text)                                                     *)
(***************************************************************************)
\* DOI_START_RE.finditer(text): the leftmost match at or after pos
RECURSIVE DOI_START_RE_search(_, _)
DOI_START_RE_search(t, pos) ==
    IF pos >= Len(t) THEN NoMatch
    ELSE IF DOI_START_RE(t, pos) > 0
    THEN [kind |-> "doi_start", start |-> pos, end |-> pos + DOI_START_RE(t, pos)]
    ELSE DOI_START_RE_search(t, pos + 1)

\* A mutant of Fresh: every match is read.
FreshAlways(begin, last) == TRUE

\* if begin_pos > last_end
Fresh(begin, last) == begin > last

\* lines 149-156, 162-163: the next match; either read_doi is called on the
\* tokens from it, or last_end moves
extract_search_match ==
    /\ method = "extract_search" /\ dpc = "extract_search"
    /\ LET match == DOI_START_RE_search(text, scan_pos)
       IN  IF match = NoMatch
           THEN /\ dpc' = "done"
                /\ UNCHANGED <<scan_pos, begin_pos, start, tok_pos, last_end>>
           ELSE /\ scan_pos' = match.end
                /\ begin_pos' = match.start
                /\ IF Fresh(match.start, last_end)
                   THEN /\ start' = match.start
                        /\ tok_pos' = match.start
                        /\ dpc' = "read_doi"
                        /\ UNCHANGED last_end
                   ELSE /\ last_end' = Max(match.end, last_end)
                        /\ UNCHANGED <<start, tok_pos, dpc>>
    /\ UNCHANGED <<method, text, tokens, depth, doi_buffer, stop_kind,
                   identifier, captures>>
    /\ UNCHANGED <<islandVars, processorVars>>

\* A mutant of EndPos: the span ends where read_doi stopped reading.
EndPosOfTokens == tok_pos

\* end_pos = begin_pos + len(identifier.id)
EndPos == begin_pos + Len(identifier)

\* lines 157-161
extract_search_yield ==
    /\ method = "extract_search" /\ dpc = "read_returned"
    /\ captures' = Append(captures,
                          [id |-> identifier, start |-> begin_pos, end |-> EndPos])
    /\ last_end' = EndPos
    /\ dpc' = "extract_search"
    /\ UNCHANGED <<method, text, start, tok_pos, tokens, depth, doi_buffer,
                   stop_kind, identifier, scan_pos, begin_pos>>
    /\ UNCHANGED <<islandVars, processorVars>>

InitSearch ==
    /\ method = "extract_search"
    /\ text \in SearchTexts
    /\ dpc = "extract_search"
    /\ start = 0 /\ tok_pos = 0 /\ tokens = <<>>
    /\ depth = NoDepth /\ doi_buffer = <<>>
    /\ stop_kind = "" /\ identifier = <<>>
    /\ scan_pos = 0 /\ begin_pos = 0 /\ last_end = 0 /\ captures = <<>>
    /\ IslandIdle
    /\ ProcessorIdle

NextSearch ==
    \/ extract_search_match
    \/ extract_search_yield
    \/ read_doi_enter
    \/ read_doi_loop
    \/ read_doi_return

SpecSearch == InitSearch /\ [][NextSearch]_vars

(***************************************************************************)
(* The lexer, or extract, called on a text.                                 *)
(***************************************************************************)
InitExtract == InitLexer \/ InitSearch

NextExtract == NextLexer \/ NextSearch

SpecExtract == InitExtract /\ [][NextExtract]_vars

(***************************************************************************)
(* extract_island(text): one walk over the tokens of tokenize_finditer,     *)
(* through a peekable; tok_pos is the position of the stream.  To set its   *)
(* results against those of extract_search, it is called on the text       *)
(* extract_search has just been run on.                                     *)
(***************************************************************************)
\* extract_island(text), once extract_search(text) has ended: lines 68-69
extract_island_call ==
    /\ method = "extract_search" /\ dpc = "done"
    /\ method' = "extract_island"
    /\ dpc' = "island_while"
    /\ start' = 0
    /\ tok_pos' = 0
    /\ dois' = <<>>
    /\ UNCHANGED <<text, tokens, depth, doi_buffer, stop_kind, identifier,
                   scan_pos, begin_pos, last_end, captures>>
    /\ UNCHANGED processorVars

\* A mutant of IsDoiStart: read_doi is called at every token.
IsAnyToken(m) == TRUE

\* line 73: if tokens.peek()[0] == 'doi_start'
IsDoiStart(m) == m.kind = "doi_start"

\* lines 71-76: the loop test; at a doi_start token read_doi is called, any
\* other token is taken by the next(tokens) of line 76
extract_island_while ==
    /\ method = "extract_island" /\ dpc = "island_while"
    /\ IF peek = NoMatch
       THEN /\ dpc' = "done"
            /\ UNCHANGED tok_pos
       ELSE IF IsDoiStart(peek)
       THEN /\ dpc' = "read_doi"
            /\ UNCHANGED tok_pos
       ELSE /\ tok_pos' = peek.end
            /\ UNCHANGED dpc
    /\ UNCHANGED <<method, text, start, tokens, depth, doi_buffer, stop_kind,
                   identifier, scan_pos, begin_pos, last_end, captures, dois>>
    /\ UNCHANGED processorVars

\* line 74: yield ('doi', read_doi(tokens))
extract_island_yield ==
    /\ method = "extract_island" /\ dpc = "read_returned"
    /\ dois' = Append(dois, identifier)
    /\ dpc' = "island_next"
    /\ UNCHANGED <<method, text, start, tok_pos, tokens, depth, doi_buffer,
                   stop_kind, identifier, scan_pos, begin_pos, last_end,
                   captures>>
    /\ UNCHANGED processorVars

\* What the StopIteration of next(tokens) becomes inside the generator:
\* a RuntimeError (Python 3.7 on), or the silent end of the generator
\* (before).
StopIterationInGenerator == {"RuntimeError", "done"}

\* line 76, after read_doi: next(tokens) takes the token read_doi stopped
\* at; with none left it raises StopIteration
extract_island_next ==
    /\ method = "extract_island" /\ dpc = "island_next"
    /\ IF peek = NoMatch
       THEN /\ dpc' \in StopIterationInGenerator
            /\ UNCHANGED tok_pos
       ELSE /\ tok_pos' = peek.end
            /\ dpc' = "island_while"
    /\ UNCHANGED <<method, text, start, tokens, depth, doi_buffer, stop_kind,
                   identifier, scan_pos, begin_pos, last_end, captures, dois>>
    /\ UNCHANGED processorVars

NextMethods ==
    \/ extract_search_match
    \/ extract_search_yield
    \/ read_doi_enter
    \/ read_doi_loop
    \/ read_doi_return
    \/ extract_island_call
    \/ extract_island_while
    \/ extract_island_yield
    \/ extract_island_next

SpecMethods == InitSearch /\ [][NextMethods]_vars

(***************************************************************************)
(* The bibliography pipeline: main renders features_template over          *)
(* extract_pages(dump, ...), which pulls the pages one by one and, inside   *)
(* each page, the revisions of extract_revisions(mw_page, ...) one by one.  *)
(* Both are generators: the code after a yield runs when the renderer asks  *)
(* for the next item.  The dump reader is outside the program: what it      *)
(* gives next is any page or revision, or the end.                          *)
(***************************************************************************)
FUZZY_MATCH_CUTOFF == 91

MaxPages == 2

\* the revisions read from the dump, over all its pages
MaxRevisions == 3

Namespaces == {0, 1}

SectionNames == {"References", "Bibliography", "Early life"}

\* The best score fuzzywuzzy finds for each section name over the
\* language's synonyms: one table with "Bibliography" at the cutoff, one
\* with it just below.
ScoreTables ==
    { [n \in SectionNames |->
          CASE n = "References" -> 100 [] n = "Bibliography" -> 91 [] OTHER -> 45],
      [n \in SectionNames |->
          CASE n = "References" -> 95 [] n = "Bibliography" -> 90 [] OTHER -> 0] }

\* A revision's text, as the names of the sections it holds, in order.
RevisionTexts ==
    { <<>>, <<"References">>, <<"Early life", "References">>,
      <<"References", "Bibliography">> }

\* extractors.sections(utils.remove_comments(text)): the names of the
\* sections of a revision's text
sections(revision_text) == revision_text

\* A mutant of is_bibliography: a score equal to the cutoff is no match.
is_bibliography_above(section_name, score_cutoff) ==
    score[section_name] > score_cutoff

\* is_bibliography(section_name, language, score_cutoff): extractOne finds a
\* synonym whose score is at least score_cutoff
is_bibliography(section_name, score_cutoff) ==
    score[section_name] >= score_cutoff

\* list(section for section in sections if is_bibliography(section.name, language))
Bibliography(revision_text) ==
    LET Test(n) == is_bibliography(n, FUZZY_MATCH_CUTOFF)
    IN  SelectSeq(sections(revision_text), Test)

(***************************************************************************)
(* is_bibliography called with any section name and any cutoff, through    *)
(* its functools.lru_cache: a call with arguments seen before returns the  *)
(* stored value, any other computes the value and stores it.               *)
(***************************************************************************)
\* @functools.lru_cache(maxsize=500)
LruMaxsize == 500

MaxCalls == 3

ScoreValues == {0, 90, 91, 100}

Cutoffs == {0, FUZZY_MATCH_CUTOFF, 100}

\* the sequence s without its i-th item
Without(s, i) == SubSeq(s, 1, i - 1) \o SubSeq(s, i + 1, Len(s))

\* the lru_cache after a miss stored entry e: when full, the least recently
\* used entry goes
Stored(e) == Append(IF Len(lru) >= LruMaxsize THEN Tail(lru) ELSE lru, e)

\* lines 130-142: one call of the memoized function
is_bibliography_call ==
    /\ calls < MaxCalls
    /\ \E n \in SectionNames, c \in Cutoffs :
           LET a == [section_name |-> n, score_cutoff |-> c]
               hit == {i \in 1..Len(lru) : lru[i].key = a}
           IN  /\ args' = a
               /\ IF hit # {}
                  THEN LET i == CHOOSE j \in hit : TRUE
                       IN  /\ returned' = lru[i].value
                           /\ lru' = Append(Without(lru, i), lru[i])
                  ELSE LET v == is_bibliography(n, c)
                       IN  /\ returned' = v
                           /\ lru' = Stored([key |-> a, value |-> v])
    /\ calls' = calls + 1
    /\ UNCHANGED <<pipeVars, extractorVars>>

InitClassifier ==
    /\ score \in [SectionNames -> ScoreValues]
    /\ only_last_revision = FALSE /\ pc = ""
    /\ stats = <<>> /\ dump = <<>> /\ cache = <<>> /\ mw_revision = 0
    /\ is_last_revision = FALSE /\ bibliography_sections = <<>>
    /\ section = 0 /\ out = <<>>
    /\ ClassifierIdle
    /\ ExtractorIdle

NextClassifier == is_bibliography_call

SpecClassifier == InitClassifier /\ [][NextClassifier]_vars

RECURSIVE RevisionsRead(_)
RevisionsRead(d) ==
    IF d = <<>> THEN 0 ELSE Len(Head(d).revisions) + RevisionsRead(Tail(d))

\* What next(dump) may give: a page, or the end (StopIteration).
DumpNext ==
    {[stop |-> TRUE, namespace |-> 0]} \cup
        (IF Len(dump) < MaxPages
         THEN {[stop |-> FALSE, namespace |-> n] : n \in Namespaces} ELSE {})

\* What next() on the revisions of mw_page may give: a revision, or the end.
MwPageNext ==
    {[stop |-> TRUE, text |-> <<>>]} \cup
        (IF ~dump[Len(dump)].exhausted /\ RevisionsRead(dump) < MaxRevisions
         THEN {[stop |-> FALSE, text |-> t] : t \in RevisionTexts} ELSE {})

\* The dump after next() on the revisions of mw_page gave r.
Read(r) ==
    IF r.stop
    THEN [dump EXCEPT ![Len(dump)].exhausted = TRUE]
    ELSE [dump EXCEPT ![Len(dump)].revisions = Append(@, r.text)]

NoCounts == [n \in SectionNames |-> 0]

InitPipeline ==
    /\ only_last_revision \in BOOLEAN
    /\ score \in ScoreTables
    /\ pc = "pages_for"
    /\ stats = [revisions_analyzed |-> 0, pages_analyzed |-> 0,
                section_names |-> [global |-> NoCounts,
                                   last_revision |-> NoCounts]]
    /\ dump = <<>>
    /\ cache = <<>>
    /\ mw_revision = 0
    /\ is_last_revision = FALSE
    /\ bibliography_sections = <<>>
    /\ section = 0
    /\ out = <<>>

\* line 198: for mw_page in dump
extract_pages_for ==
    /\ pc = "pages_for"
    /\ \E p \in DumpNext :
           IF p.stop
           THEN /\ pc' = "rendered"
                /\ UNCHANGED dump
           ELSE /\ dump' = Append(dump, [namespace |-> p.namespace,
                                         revisions |-> <<>>,
                                         exhausted |-> FALSE])
                /\ pc' = "pages_check"
    /\ UNCHANGED <<only_last_revision, score, stats, cache, mw_revision,
                   is_last_revision, bibliography_sections, section, out>>
    /\ UNCHANGED <<extractorVars, clsVars>>

\* A mutant of NotArticle: no page is skipped.
NotArticleNever(mw_page) == FALSE

\* line 202: if mw_page.namespace != 0
NotArticle(mw_page) == mw_page.namespace # 0

\* lines 202-204: continue
extract_pages_skip ==
    /\ pc = "pages_check"
    /\ NotArticle(dump[Len(dump)])
    /\ pc' = "pages_for"
    /\ UNCHANGED <<only_last_revision, score, stats, dump, cache, mw_revision,
                   is_last_revision, bibliography_sections, section, out>>
    /\ UNCHANGED <<extractorVars, clsVars>>

\* lines 206-218: yield Page(...); the renderer starts on page.revisions
extract_pages_yield ==
    /\ pc = "pages_check"
    /\ ~NotArticle(dump[Len(dump)])
    /\ out' = Append(out, [page |-> Len(dump),
                           namespace |-> dump[Len(dump)].namespace,
                           revisions |-> <<>>])
    /\ cache' = <<>>
    /\ mw_revision' = 0
    /\ pc' = "revisions_for"
    /\ UNCHANGED <<only_last_revision, score, stats, dump, is_last_revision,
                   bibliography_sections, section>>
    /\ UNCHANGED <<extractorVars, clsVars>>

\* line 219, when the renderer asks for the next page
extract_pages_resume ==
    /\ pc = "pages_resume"
    /\ stats' = [stats EXCEPT !.pages_analyzed = @ + 1]
    /\ pc' = "pages_for"
    /\ UNCHANGED <<only_last_revision, score, dump, cache, mw_revision,
                   is_last_revision, bibliography_sections, section, out>>
    /\ UNCHANGED <<extractorVars, clsVars>>

\* A mutant of Taken: the peeked revision stays in the cache.
TakenKept == cache

\* The peekable's cache after next() took its first item.
Taken == Tail(cache)

\* lines 152-153: for mw_revision in revisions, revisions the peekable over
\* mw_page: the peeked revision if there is one, else the next of mw_page;
\* at the end the renderer goes on to the next page
extract_revisions_for ==
    /\ pc = "revisions_for"
    /\ IF cache # <<>>
       THEN /\ mw_revision' = Head(cache)
            /\ cache' = Taken
            /\ pc' = "has_next"
            /\ UNCHANGED dump
       ELSE \E r \in MwPageNext :
                /\ dump' = Read(r)
                /\ IF r.stop
                   THEN /\ pc' = "pages_resume"
                        /\ UNCHANGED mw_revision
                   ELSE /\ mw_revision' = Len(dump'[Len(dump)].revisions)
                        /\ pc' = "has_next"
                /\ UNCHANGED cache
    /\ UNCHANGED <<only_last_revision, score, stats, is_last_revision,
                   bibliography_sections, section, out>>
    /\ UNCHANGED <<extractorVars, clsVars>>

\* utils.has_next(revisions), after its peek: whether the peekable holds a
\* revision
has_next(peeked) == peeked # <<>>

\* A mutant of Skipped: no revision is skipped.
SkippedNever(only_last, is_last) == FALSE

\* line 157: if only_last_revision and not is_last_revision
Skipped(only_last, is_last) == only_last /\ ~is_last

\* lines 156-167: utils.has_next(revisions) peeks: the next revision of
\* mw_page, if there is one, goes to the cache; then the revision is
\* skipped or its bibliography sections are listed
extract_revisions_has_next ==
    /\ pc = "has_next"
    /\ IF cache # <<>>
       THEN UNCHANGED <<dump, cache>>
       ELSE \E r \in MwPageNext :
                /\ dump' = Read(r)
                /\ cache' = IF r.stop THEN <<>>
                            ELSE <<Len(dump'[Len(dump)].revisions)>>
    /\ is_last_revision' = ~has_next(cache')
    /\ IF Skipped(only_last_revision, is_last_revision')
       THEN /\ pc' = "revisions_for"
            /\ UNCHANGED <<bibliography_sections, section>>
       ELSE /\ bibliography_sections' =
                   Bibliography(dump[Len(dump)].revisions[mw_revision])
            /\ section' = 1
            /\ pc' = "sections_for"
    /\ UNCHANGED <<only_last_revision, score, stats, mw_revision, out>>
    /\ UNCHANGED <<extractorVars, clsVars>>

Count1(counter, name) == [counter EXCEPT ![name] = @ + 1]

\* A mutant of section_global: the section is counted in last_revision.
section_global_as_last ==
    /\ pc = "sections_for"
    /\ section <= Len(bibliography_sections)
    /\ stats' = [stats EXCEPT !.section_names.last_revision =
                     Count1(@, bibliography_sections[section])]
    /\ pc' = "section_if_last"
    /\ UNCHANGED <<only_last_revision, score, dump, cache, mw_revision,
                   is_last_revision, bibliography_sections, section, out>>
    /\ UNCHANGED <<extractorVars, clsVars>>

\* lines 169-170: section_names_stats['global'][section.name] += 1
section_global ==
    /\ pc = "sections_for"
    /\ section <= Len(bibliography_sections)
    /\ stats' = [stats EXCEPT !.section_names.global =
                     Count1(@, bibliography_sections[section])]
    /\ pc' = "section_if_last"
    /\ UNCHANGED <<only_last_revision, score, dump, cache, mw_revision,
                   is_last_revision, bibliography_sections, section, out>>
    /\ UNCHANGED <<extractorVars, clsVars>>

\* A mutant of section_last: every revision counts as the last.
section_last_always ==
    /\ pc = "section_if_last"
    /\ stats' = [stats EXCEPT !.section_names.last_revision =
                     Count1(@, bibliography_sections[section])]
    /\ section' = section + 1
    /\ pc' = "sections_for"
    /\ UNCHANGED <<only_last_revision, score, dump, cache, mw_revision,
                   is_last_revision, bibliography_sections, out>>
    /\ UNCHANGED <<extractorVars, clsVars>>

\* lines 171-172: if is_last_revision:
\*     section_names_stats['last_revision'][section.name] += 1
section_last ==
    /\ pc = "section_if_last"
    /\ IF is_last_revision
       THEN stats' = [stats EXCEPT !.section_names.last_revision =
                          Count1(@, bibliography_sections[section])]
       ELSE UNCHANGED stats
    /\ section' = section + 1
    /\ pc' = "sections_for"
    /\ UNCHANGED <<only_last_revision, score, dump, cache, mw_revision,
                   is_last_revision, bibliography_sections, out>>
    /\ UNCHANGED <<extractorVars, clsVars>>

\* out with the Revision record of mw_revision added to the last page
Emitted ==
    [out EXCEPT ![Len(out)].revisions =
         Append(@, [revision |-> mw_revision,
                    sections |-> bibliography_sections])]

\* A mutant of Raised: the Revision record is handed over all the same.
RaisedAfterYield ==
    /\ pc' = "error"
    /\ out' = Emitted

\* line 184: mw_revision.timestamp.to_json() raises while the arguments of
\* Revision(...) are evaluated: nothing is yielded, and the exception leaves
\* extract_revisions, the renderer that was iterating it and main (lines
\* 268-277), none of which catches it
Raised ==
    /\ pc' = "error"
    /\ UNCHANGED out

\* lines 174-187: yield Revision(...), unless the timestamp of the revision
\* cannot be converted
extract_revisions_yield ==
    /\ pc = "sections_for"
    /\ section > Len(bibliography_sections)
    /\ \/ /\ out' = Emitted
          /\ pc' = "revisions_resume"
       \/ Raised
    /\ UNCHANGED <<only_last_revision, score, stats, dump, cache, mw_revision,
                   is_last_revision, bibliography_sections, section>>
    /\ UNCHANGED <<extractorVars, clsVars>>

\* line 189, when the renderer asks for the next revision
extract_revisions_resume ==
    /\ pc = "revisions_resume"
    /\ stats' = [stats EXCEPT !.revisions_analyzed = @ + 1]
    /\ pc' = "revisions_for"
    /\ UNCHANGED <<only_last_revision, score, dump, cache, mw_revision,
                   is_last_revision, bibliography_sections, section, out>>
    /\ UNCHANGED <<extractorVars, clsVars>>

\* The renderer holds a record and has not asked for the next one: after a
\* Page was yielded, after a Revision was yielded, or after the revisions of
\* a page ended.
AtConsumer ==
    \/ pc = "revisions_for" /\ mw_revision = 0
    \/ pc = "revisions_resume"
    \/ pc = "pages_resume"

\* The consumer stops iterating: the generators are never resumed.
consumer_stops ==
    /\ AtConsumer
    /\ pc' = "cancelled"
    /\ UNCHANGED <<only_last_revision, score, stats, dump, cache, mw_revision,
                   is_last_revision, bibliography_sections, section, out>>
    /\ UNCHANGED <<extractorVars, clsVars>>

Init == InitPipeline /\ ClassifierIdle /\ ExtractorIdle

Next ==
    \/ extract_pages_for
    \/ extract_pages_skip
    \/ extract_pages_yield
    \/ extract_pages_resume
    \/ extract_revisions_for
    \/ extract_revisions_has_next
    \/ section_global
    \/ section_last
    \/ extract_revisions_yield
    \/ extract_revisions_resume
    \/ consumer_stops

Spec == Init /\ [][Next]_vars

(***************************************************************************)
(* Properties                                                               *)
(***************************************************************************)
TokenTexts(toks) == [i \in 1..Len(toks) |-> toks[i][2]]

\* C2: the texts of the tokens yielded so far, concatenated in order, are
\* exactly the part of the text between the start offset and the lexer's
\* position (no gap, no overlap); once the lexer is exhausted they are the
\* whole of text[start:] (the whole text for tokenize_finditer).
Lossless ==
    /\ Concat(TokenTexts(tokens)) = Slice(text, start, tok_pos)
    /\ dpc = "done" => Concat(TokenTexts(tokens)) = Slice(text, start, Len(text))

\* A lexer started past the beginning has yielded a tag and at least two
\* more tokens and is exhausted.
LosslessWitness ==
    /\ dpc = "done" /\ start > 0 /\ Len(tokens) >= 3
    /\ \E i \in 1..Len(tokens) : tokens[i][1] = "tag"

\* C1: the captures extract_search has yielded are in strictly increasing
\* start order and do not overlap: each ends at or before the start of the
\* next.
CapturesAscendingDisjoint ==
    \A i \in 1..(Len(captures) - 1) :
        /\ captures[i].start < captures[i + 1].start
        /\ captures[i].end <= captures[i + 1].start

\* extract_search is over, has yielded two captures and has passed over a
\* match that began inside the first.
CapturesWitness ==
    /\ method = "extract_search" /\ dpc = "done"
    /\ Len(captures) >= 2
    /\ \E p \in (captures[1].start + 1)..(captures[1].end - 1) :
           DOI_START_RE(text, p) > 0

Count(s, c) == Cardinality({i \in 1..Len(s) : s[i] = c})

Ex(tail) == DoiStart \o tail

\* C3, the step: when the loop of read_doi looks at a closing bracket
\* (brace), it takes and appends it and decrements the counter if the
\* counter is > 0, and otherwise stops, taking and appending nothing.
CloserStep ==
    (dpc = "read_loop" /\ peek.kind \in {"close_bracket", "close_curly"}) =>
        LET c == IF peek.kind = "close_bracket" THEN "bracket" ELSE "curly"
            other == IF c = "bracket" THEN "curly" ELSE "bracket"
        IN  /\ depth'[other] = depth[other]
            /\ IF depth[c] > 0
               THEN /\ depth'[c] = depth[c] - 1
                    /\ doi_buffer' = Append(doi_buffer, <<At(text, tok_pos)>>)
                    /\ tok_pos' = tok_pos + 1
                    /\ dpc' = "read_loop"
               ELSE /\ depth'[c] = 0
                    /\ doi_buffer' = doi_buffer
                    /\ tok_pos' = tok_pos
                    /\ dpc' = "read_return"

\* C3, the result: every closing bracket (brace) of the id has its opening
\* bracket (brace) before it in the id, and the two examples.
ClosersMatched ==
    /\ \A n \in 0..Len(identifier) :
           /\ Count(SubSeq(identifier, 1, n), "]")
                  <= Count(SubSeq(identifier, 1, n), "[")
           /\ Count(SubSeq(identifier, 1, n), "}")
                  <= Count(SubSeq(identifier, 1, n), "{")
    /\ (dpc = "done" /\ text = Ex(<<"a", "b", "[", "c", "]", "d">>))
           => identifier = Ex(<<"a", "b", "[", "c", "]", "d">>)
    /\ (dpc = "done" /\ text = Ex(<<"a", "b", "c", "]">>))
           => identifier = Ex(<<"a", "b", "c">>)

\* C3: while read_doi accumulates, a closing bracket (brace) is taken and
\* appended if and only if its depth counter is > 0, and the counter is then
\* decremented; at 0 the scan stops and the closer is not part of the id.
CloserIffOpen == []ClosersMatched /\ [][CloserStep]_vars

\* read_doi has returned an id that holds a closing bracket, having stopped
\* at another closing bracket.
CloserWitness ==
    /\ method = "read_doi" /\ dpc = "done"
    /\ stop_kind = "close_bracket"
    /\ Count(identifier, "]") > 0

\* C4: the id read_doi returns is the concatenation of doi_buffer without
\* its longest trailing run of '.', ',' and '!', so it does not end with
\* one of them; "10.1000/xyz123." gives "10.1000/xyz123".
TrailingPunctuationStripped ==
    dpc = "done" =>
        LET full == Concat(doi_buffer)
            n == Len(identifier)
        IN  /\ n <= Len(full)
            /\ identifier = SubSeq(full, 1, n)
            /\ \A i \in (n + 1)..Len(full) : full[i] \in EndPunctuation
            /\ n > 0 => identifier[n] \notin EndPunctuation
            /\ text = Ex(<<"x", "y", "z", "1", "2", "3", ".">>)
                   => identifier = Ex(<<"x", "y", "z", "1", "2", "3">>)

\* read_doi has returned an id shorter by a run of two or more characters,
\* one of them a '!'.
TrailingPunctuationWitness ==
    /\ method = "read_doi" /\ dpc = "done"
    /\ Len(Concat(doi_buffer)) >= Len(identifier) + 2
    /\ "!" \in {doi_buffer[i][1] : i \in 1..Len(doi_buffer)}

\* When read_doi has returned, the stream is exhausted or its next token is
\* the one that stopped the scan: a terminator, or a closer met at depth 0.
StoppedAtTerminator ==
    /\ stop_kind = (IF peek = NoMatch THEN "end" ELSE peek.kind)
    /\ \/ peek = NoMatch
       \/ peek.kind \in Terminators
       \/ peek.kind = "close_bracket" /\ depth.bracket = 0
       \/ peek.kind = "close_curly" /\ depth.curly = 0

\* C10 as stated: read_doi takes from the stream exactly the tokens that make
\* up the id it returns, and leaves the terminator in the stream.
ConsumesExactlyTheId ==
    dpc = "done" =>
        /\ Slice(text, start, tok_pos) = identifier
        /\ StoppedAtTerminator

\* C10 amended: read_doi takes from the stream exactly the tokens whose
\* texts make up the id it returns followed by the trailing '.', ',' and '!'
\* that were stripped from it, and leaves the terminator in the stream.
ConsumesIdAndStrippedPunctuation ==
    dpc = "done" =>
        LET taken == Slice(text, start, tok_pos)
            n == Len(identifier)
        IN  /\ taken = Concat(doi_buffer)
            /\ n <= Len(taken)
            /\ identifier = SubSeq(taken, 1, n)
            /\ \A i \in (n + 1)..Len(taken) : taken[i] \in EndPunctuation
            /\ StoppedAtTerminator

\* read_doi has returned, having stopped at a tag with punctuation taken
\* before it.
ConsumesWitness ==
    /\ method = "read_doi" /\ dpc = "done"
    /\ stop_kind = "tag"
    /\ tok_pos > start + Len(identifier)

Articles == {i \in 1..Len(dump) : dump[i].namespace = 0}

\* Every revision of page i of the dump holds exactly one bibliography
\* section, named X.
OneSectionEach(i, X) ==
    \A j \in 1..Len(dump[i].revisions) : Bibliography(dump[i].revisions[j]) = <<X>>

\* C5: when the renderer has drained a dump whose only namespace-0 page has
\* n >= 1 revisions, each with exactly one bibliography section named X:
\* without only_last_revision, global[X] = n and last_revision[X] = 1; with
\* it, revisions_analyzed = 1 and pages_analyzed = 1.
CounterConsistency ==
    pc = "rendered" =>
        \A i \in Articles : \A X \in SectionNames :
            LET n == Len(dump[i].revisions)
            IN  (Articles = {i} /\ n >= 1 /\ OneSectionEach(i, X)) =>
                    IF only_last_revision
                    THEN /\ stats.revisions_analyzed = 1
                         /\ stats.pages_analyzed = 1
                    ELSE /\ stats.section_names.global[X] = n
                         /\ stats.section_names.last_revision[X] = 1

\* The renderer has drained a dump of one page with three revisions, each
\* with the one bibliography section "References", all three emitted.
CounterWitness ==
    /\ pc = "rendered" /\ ~only_last_revision
    /\ Len(dump) = 1 /\ Articles = {1}
    /\ Len(dump[1].revisions) = 3 /\ OneSectionEach(1, "References")
    /\ Len(out[1].revisions) = 3

\* C6, the records: no Page record, and so no Revision record, is of a page
\* whose namespace is not 0.
NoRecordOutsideArticles ==
    \A k \in 1..Len(out) : out[k].page \in Articles /\ out[k].namespace = 0

\* C6, the step: passing over a page whose namespace is not 0 changes no
\* counter and emits nothing.
SkipPageStep ==
    (pc = "pages_check" /\ dump[Len(dump)].namespace # 0) =>
        /\ pc' = "pages_for"
        /\ stats' = stats
        /\ out' = out

\* C6: a page whose namespace is not 0 produces no Page record and no
\* Revision record, and processing it leaves pages_analyzed,
\* revisions_analyzed and both section-name counters unchanged.
NamespaceFilter == []NoRecordOutsideArticles /\ [][SkipPageStep]_vars

\* The dump held an article with a bibliography section and then a page of
\* another namespace; only the article was emitted and counted.
NamespaceWitness ==
    /\ pc = "rendered"
    /\ Len(dump) = 2 /\ dump[1].namespace = 0 /\ dump[2].namespace # 0
    /\ Len(out) = 1 /\ stats.pages_analyzed = 1
    /\ stats.section_names.global["References"] > 0

\* C7: in every state, between the two increments for one section as well,
\* last_revision[name] <= global[name] for every section name.
LastRevisionAtMostGlobal ==
    \A n \in SectionNames :
        stats.section_names.last_revision[n] <= stats.section_names.global[n]

\* Between the two increments for a section of a page's last revision, with
\* an earlier count of the same name in both counters.
LastRevisionWitness ==
    /\ pc = "section_if_last" /\ is_last_revision
    /\ LET n == bibliography_sections[section]
       IN  /\ stats.section_names.last_revision[n] >= 1
           /\ stats.section_names.global[n]
                  > stats.section_names.last_revision[n]

\* The revisions generator of the k-th Page record has ended.
Drained(k) ==
    \/ k < Len(out)
    \/ pc \in {"pages_resume", "pages_for", "pages_check", "rendered"}

Numbers(k) == [j \in 1..Len(out[k].revisions) |-> out[k].revisions[j].revision]

\* C8, the records: once a page's revisions are drained, with
\* only_last_revision the one Revision record is that of the page's last
\* revision (none for a page without revisions), and without it there is
\* one for every revision; each holds the revision's bibliography sections.
RecordsOfDrainedPages ==
    \A k \in 1..Len(out) :
        LET revs == dump[out[k].page].revisions
            n == Len(revs)
        IN  /\ Drained(k) =>
                /\ dump[out[k].page].exhausted
                /\ Numbers(k) = IF only_last_revision
                                THEN (IF n = 0 THEN <<>> ELSE <<n>>)
                                ELSE [j \in 1..n |-> j]
            /\ \A j \in 1..Len(out[k].revisions) :
                   out[k].revisions[j].sections
                       = Bibliography(revs[out[k].revisions[j].revision])

\* C8, the step: a revision that is skipped touches no counter and emits
\* nothing.
SkipRevisionStep ==
    (pc = "has_next" /\ pc' = "revisions_for") => (stats' = stats /\ out' = out)

\* C8: with only_last_revision, for every namespace-0 page with at least
\* one revision exactly one Revision record is emitted, that of the page's
\* final revision, and every earlier revision is skipped without touching a
\* counter; without it every revision of the page is emitted.
OnlyLastRevision == []RecordsOfDrainedPages /\ [][SkipRevisionStep]_vars

\* With only_last_revision, a page of three revisions is drained and its one
\* record is that of the third.
OnlyLastWitness ==
    /\ only_last_revision /\ pc = "rendered"
    /\ Len(out) = 1
    /\ Len(dump[out[1].page].revisions) = 3
    /\ Numbers(1) = <<3>>
    /\ stats.revisions_analyzed = 1

\* C9: the Page records are in the order of the dump's namespace-0 pages,
\* none missing, and the Revision records of a page are revisions of that
\* page in the order of the dump, none twice.
EmissionOrder ==
    /\ \A k \in 1..(Len(out) - 1) : out[k].page < out[k + 1].page
    /\ {out[k].page : k \in 1..Len(out)}
           = Articles \ (IF pc = "pages_check" THEN {Len(dump)} ELSE {})
    /\ \A k \in 1..Len(out) :
           /\ \A j \in 1..Len(out[k].revisions) :
                  out[k].revisions[j].revision
                      \in 1..Len(dump[out[k].page].revisions)
           /\ \A j \in 1..(Len(out[k].revisions) - 1) :
                  out[k].revisions[j].revision
                      < out[k].revisions[j + 1].revision

\* Two pages emitted, the first with two revisions, the second with one.
EmissionWitness ==
    /\ Len(out) = 2
    /\ Len(out[1].revisions) = 2
    /\ Len(out[2].revisions) = 1

FailedRevisionNotEmitted ==
    pc = "error" =>
        \A j \in 1..Len(out[Len(out)].revisions) :
            out[Len(out)].revisions[j].revision # mw_revision

\* The step that fails emits nothing, and no step follows it.
FatalStep ==
    /\ pc' = "error" => out' = out
    /\ pc = "error" => pc' = "error" /\ out' = out /\ stats' = stats

\* C12: a timestamp conversion that fails ends the whole run with the error:
\* the step that fails emits no Revision record, the failed revision has no
\* record, and afterwards no Revision or Page record is emitted (the run
\* does not skip the revision and go on).
TimestampFailureIsFatal == []FailedRevisionNotEmitted /\ [][FatalStep]_vars

\* the second revision of a page fails after the first was emitted, with
\* more of the dump left to read
TimestampFailureWitness ==
    /\ pc = "error"
    /\ mw_revision = 2
    /\ Len(out[Len(out)].revisions) = 1
    /\ ~dump[Len(dump)].exhausted

\* the Revision records emitted so far, as <<page record, place in it>>
RevisionRecords ==
    {r \in (1..Len(out)) \X (1..MaxRevisions) :
         r[2] <= Len(out[r[1]].revisions)}

\* how many sections named n the emitted Revision records hold
SectionsEmitted(n) ==
    Cardinality({<<r, i>> \in RevisionRecords \X (1..2) :
                     /\ i <= Len(out[r[1]].revisions[r[2]].sections)
                     /\ out[r[1]].revisions[r[2]].sections[i] = n})

\* C13: at every point of the stream, also after the consumer stopped early
\* or a revision failed, revisions_analyzed is the number of Revision
\* records emitted so far, pages_analyzed the number of Page records emitted
\* so far, and section_names.global counts the sections of the emitted
\* Revision records and no others.
StatsMatchEmitted ==
    /\ stats.revisions_analyzed = Cardinality(RevisionRecords)
    /\ stats.pages_analyzed = Len(out)
    /\ \A n \in SectionNames :
           stats.section_names.global[n] = SectionsEmitted(n)

\* C14: every capture extract has yielded has a half-open span inside the
\* text, 0 <= start < end <= len(text), as long as its id, and the text
\* between start and end is its id.
CaptureSpans ==
    \A i \in 1..Len(captures) :
        LET c == captures[i]
        IN  /\ 0 <= c.start /\ c.start < c.end /\ c.end <= Len(text)
            /\ c.end - c.start = Len(c.id)
            /\ Slice(text, c.start, c.end) = c.id

\* a capture whose id lost trailing punctuation: the span ends before it
CaptureSpansWitness ==
    \E i \in 1..Len(captures) :
        /\ Len(captures[i].id) > Len(DoiStart)
        /\ At(text, captures[i].end) \in EndPunctuation

\* C15: the id read_doi returns is not empty and begins with the whole text
\* of the doi_start token, whatever follows the start marker: the stripping
\* of trailing punctuation takes nothing of the start marker.
IdBeginsWithStart ==
    dpc \in {"done", "read_returned"} /\ doi_buffer # <<>> =>
        /\ identifier # <<>>
        /\ Len(identifier) >= Len(doi_buffer[1])
        /\ SubSeq(identifier, 1, Len(doi_buffer[1])) = doi_buffer[1]
        /\ DOI_START_RE(identifier, 0) = Len(doi_buffer[1])

\* the start marker followed by punctuation only: the id is the marker
IdBeginsWitness ==
    /\ dpc = "done"
    /\ stop_kind = "end"
    /\ Len(text) > Len(DoiStart)
    /\ identifier = DoiStart

\* C16: at every turn of read_doi's loop, and when it returns, the bracket
\* and the curly counters are >= 0, and each is the number of openers of its
\* type appended to the buffer so far less the number of closers of its type
\* appended so far.
DepthCounts ==
    /\ depth.bracket >= 0
    /\ depth.curly >= 0
    /\ depth.bracket = Count(doi_buffer, <<"[">>) - Count(doi_buffer, <<"]">>)
    /\ depth.curly = Count(doi_buffer, <<"{">>) - Count(doi_buffer, <<"}">>)

\* two brackets opened and one closed, inside read_doi
DepthWitness ==
    /\ dpc = "read_loop"
    /\ depth.bracket = 1
    /\ Count(doi_buffer, <<"]">>) = 1

\* the offsets at which DOI_START_RE.finditer(t) finds its matches, from pos
RECURSIVE MatchStarts(_, _)
MatchStarts(t, pos) ==
    LET m == DOI_START_RE_search(t, pos)
    IN  IF m = NoMatch THEN {} ELSE {m.start} \cup MatchStarts(t, m.end)

\* At the offset the token stream has come to (any offset of the text, for
\* tokenize_search starts anywhere) the alternation matches, right there, a
\* token that is not empty; the tokens yielded are not empty; the captures
\* start at matches of the identifier-start pattern, each at another one.
NonEmptyTokens ==
    /\ tok_pos < Len(text) =>
           /\ LexiconAt(text, tok_pos) # NoMatch
           /\ LexiconAt(text, tok_pos).end > tok_pos
    /\ \A i \in 1..Len(tokens) : tokens[i][2] # <<>>
    /\ \A i \in 1..Len(captures) :
           /\ captures[i].start \in MatchStarts(text, 0)
           /\ \A j \in 1..Len(captures) :
                  captures[i].start = captures[j].start => i = j

\* What is left to do: the text the scan for matches has not passed, then
\* the steps left in the call of read_doi, then the text its token stream
\* has not passed.
Phase ==
    CASE dpc = "read_doi"      -> 4
      [] dpc = "read_loop"     -> 3
      [] dpc = "read_return"   -> 2
      [] dpc = "read_returned" -> 1
      [] OTHER                 -> 0

Measure ==
    << (Len(text) - scan_pos) + (IF dpc = "done" THEN 0 ELSE 1),
       Phase,
       Len(text) - tok_pos >>

\* the lexicographic order on measures
Less(m, n) ==
    \/ m[1] < n[1]
    \/ m[1] = n[1] /\ m[2] < n[2]
    \/ m[1] = n[1] /\ m[2] = n[2] /\ m[3] < n[3]

\* The guards of the steps of NextExtract: the places where the lexer, extract
\* and read_doi can take a step.
CanStep ==
    \/ method \in {"tokenize_finditer", "tokenize_search"} /\ dpc = "tokenize"
    \/ method = "extract_search" /\ dpc \in {"extract_search", "read_returned"}
    \/ dpc \in {"read_doi", "read_loop", "read_return"}

\* Before its end a call can always take a step, and what is left to do is
\* never negative.
NotStuck ==
    /\ dpc # "done" => CanStep
    /\ \A i \in 1..3 : Measure[i] >= 0

\* Each step leaves less to do; each token taken moves the stream on, each
\* match moves the scan on, and what was yielded stays.
ProgressStep ==
    /\ Less(Measure', Measure)
    /\ (tok_pos' # tok_pos /\ dpc # "extract_search") => tok_pos' > tok_pos
    /\ scan_pos' # scan_pos => scan_pos' > scan_pos
    /\ Len(tokens') >= Len(tokens)
    /\ Len(captures') >= Len(captures)

\* C17: on every text the lexer yields only tokens that are not empty and
\* moves on at every offset, and extract(text) comes to its end after
\* finitely many steps (each step leaves less to do, and a step can be taken
\* until the end), having yielded at most one capture for each match of the
\* identifier-start pattern.
ExtractTerminates ==
    /\ []NonEmptyTokens
    /\ []NotStuck
    /\ [][ProgressStep]_vars

\* extract has ended on a text with more matches than captures
ExtractTerminatesWitness ==
    /\ method = "extract_search"
    /\ dpc = "done"
    /\ Len(captures) >= 1
    /\ Cardinality(MatchStarts(text, 0)) > Len(captures)

\* the match that starts at offset s has a capture that starts there, or
\* starts inside the span of a capture
Covered(s) ==
    \E i \in 1..Len(captures) :
        \/ captures[i].start = s
        \/ captures[i].start < s /\ s < captures[i].end

\* C18: when extract(text) has ended, every match of the identifier-start
\* pattern has a capture that starts at its offset or starts inside the span
\* of a capture yielded before; so an identifier at offset 0 of the text is
\* captured.
EveryMatchCaptured ==
    (method = "extract_search" /\ dpc = "done") =>
        /\ \A s \in MatchStarts(text, 0) : Covered(s)
        /\ DOI_START_RE(text, 0) > 0 =>
               captures # <<>> /\ captures[1].start = 0

\* C19: the assertion of read_doi never fails, called from extract_search
\* or from extract_island: at each call the token stream is not at its end
\* and its next token, which starts right at the stream's position, is a
\* doi_start.
AssertionHolds ==
    /\ dpc # "AssertionError"
    /\ dpc = "read_doi" =>
           /\ peek # NoMatch
           /\ peek.kind = "doi_start"
           /\ peek.start = tok_pos

\* read_doi is called from extract_island, at a token that is not the
\* first, after extract_search called it on the same text
AssertionWitness ==
    /\ method = "extract_island"
    /\ dpc = "read_doi"
    /\ tok_pos > 0
    /\ captures # <<>>

\* the ids of the captures extract_search yielded, in order
SearchIds == [i \in 1..Len(captures) |-> captures[i].id]

\* C20: on every text extract_island runs to its end without raising and
\* yields the same identifiers as extract_search, in the same order.
MethodsAgree ==
    /\ dpc # "RuntimeError"
    /\ (method = "extract_island" /\ dpc = "done") => dois = SearchIds
====
